---- MODULE Spec2Model ----
(***************************************************************************)
(* FosterLinks client-side router: the route table of AppRouter and the    *)
(* role gate ProtectedRoute (src/components/AppRouter.tsx).                *)
(*                                                                         *)
(* A path is the sequence of segments JavaScript's path.split("/") gives:  *)
(*   ""        is <<"">>          "/"       is <<"", "">>                  *)
(*   "/login"  is <<"", "login">> "*"       is <<"*">>                     *)
(* A value that is absent (null / undefined) is the string Null.           *)
(***************************************************************************)
EXTENDS Integers, Sequences, FiniteSets

VARIABLES
    pathname,      \* the current location of the Router
    currentUser,   \* auth signal: the session's user, or Null
    userRole,      \* auth signal: the role string, or Null
    loading,       \* auth signal: TRUE while it has not resolved
    lazyStatus,    \* per lazily loaded view: "uninitialized", "pending", "resolved"
    outcome,       \* what the mounted ProtectedRoute returned ("none": no gate mounted)
    display,       \* what the Suspense region shows
    navigateTo,    \* target of a rendered <Navigate>, whose effect has not run yet
    redirects,     \* <Navigate> effects run since the last request or signal change
    allowedRoles   \* the allowedRoles prop of the gate under render

vars == <<pathname, currentUser, userRole, loading, lazyStatus, outcome,
          display, navigateTo, redirects, allowedRoles>>

----------------------------------------------------------------------------
(* Values *)

Null == "null"

\* the role tags the route table names
Roles == {"admin", "worker", "foster_parent"}

\* role strings a gate may be given or may see: the tags, the empty string
\* and a string no route names
RoleStrings == Roles \cup {"", "guest"}

Views == {"Login", "Register", "Dashboard", "YouthProfiles", "YouthDetail",
          "FosterParents", "Reports", "UserManagement", "MedicationLog",
          "ThemeSettings", "AgencySettings", "NotFound", "Unauthorized"}

NoNav == << >>

EmptyPath        == <<"">>
RootPath         == <<"", "">>
LoginPath        == <<"", "login">>
UnauthorizedPath == <<"", "unauthorized">>

\* bound: how many view modules a run may start fetching
MaxFetches == 2

\* the locations requested in a run
Requests ==
    { EmptyPath, RootPath, LoginPath, UnauthorizedPath,
      <<"", "register">>, <<"", "user-management">>, <<"", "reports">>,
      <<"", "reports-overview">>, <<"", "youth-profiles">>,
      <<"", "youth-profiles", "y1">>, <<"", "foster-parents">>,
      <<"", "my-youth">>, <<"", "medication-logs", "y1">>,
      <<"", "theme-settings">>, <<"", "agency-settings">>,
      <<"", "nonexistent-path">> }

----------------------------------------------------------------------------
(* The role gate *)

\* JavaScript truthiness of a string-or-null value
Truthy(v) == v # Null /\ v # ""

Placeholder  == [kind |-> "placeholder", to |-> NoNav]
Children     == [kind |-> "children", to |-> NoNav]
Navigate(to) == [kind |-> "navigate", to |-> to]
NoGate       == [kind |-> "none", to |-> NoNav]

\* mutants of the gate
ProtectedRoute_UserFirst(roles, user, role, isLoading) ==
    IF ~Truthy(user) THEN Navigate(LoginPath)
    ELSE IF isLoading THEN Placeholder
    ELSE IF Truthy(role) /\ role \in roles THEN Children
    ELSE Navigate(UnauthorizedPath)

ProtectedRoute_RoleFirst(roles, user, role, isLoading) ==
    IF isLoading THEN Placeholder
    ELSE IF Truthy(role) /\ role \in roles THEN Children
    ELSE IF ~Truthy(user) THEN Navigate(LoginPath)
    ELSE Navigate(UnauthorizedPath)

ProtectedRoute_DeniedToLogin(roles, user, role, isLoading) ==
    IF isLoading THEN Placeholder
    ELSE IF ~Truthy(user) THEN Navigate(LoginPath)
    ELSE IF Truthy(role) /\ role \in roles THEN Children
    ELSE Navigate(LoginPath)

ProtectedRoute_DeniedToRoot(roles, user, role, isLoading) ==
    IF isLoading THEN Placeholder
    ELSE IF ~Truthy(user) THEN Navigate(LoginPath)
    ELSE IF Truthy(role) /\ role \in roles THEN Children
    ELSE Navigate(RootPath)

ProtectedRoute_AnyRole(roles, user, role, isLoading) ==
    IF isLoading THEN Placeholder
    ELSE IF ~Truthy(user) THEN Navigate(LoginPath)
    ELSE IF Truthy(role) THEN Children
    ELSE Navigate(UnauthorizedPath)

ProtectedRoute(roles, user, role, isLoading) ==
    IF isLoading THEN Placeholder
    ELSE IF ~Truthy(user) THEN Navigate(LoginPath)
    ELSE IF Truthy(role) /\ role \in roles THEN Children
    ELSE Navigate(UnauthorizedPath)

----------------------------------------------------------------------------
(* The route table *)

Public(path, view) ==
    [path |-> path, gated |-> FALSE, allowedRoles |-> {}, view |-> view, to |-> NoNav]
Protected(path, roles, view) ==
    [path |-> path, gated |-> TRUE, allowedRoles |-> roles, view |-> view, to |-> NoNav]
Redirect(path, to) ==
    [path |-> path, gated |-> FALSE, allowedRoles |-> {}, view |-> Null, to |-> to]

RouteTable ==
    << Public(LoginPath, "Login"),
       Public(<<"", "register">>, "Register"),
       Protected(RootPath, {"admin", "worker", "foster_parent"}, "Dashboard"),
       Redirect(EmptyPath, LoginPath),
       Protected(<<"", "user-management">>, {"admin"}, "UserManagement"),
       Protected(<<"", "reports">>, {"admin", "worker"}, "Reports"),
       Protected(<<"", "reports-overview">>, {"admin", "worker"}, "Reports"),
       Protected(<<"", "youth-profiles">>, {"admin", "worker"}, "YouthProfiles"),
       Protected(<<"", "youth-profiles", ":id">>,
                 {"admin", "worker", "foster_parent"}, "YouthDetail"),
       Protected(<<"", "foster-parents">>, {"admin", "worker"}, "FosterParents"),
       Protected(<<"", "my-youth">>, {"foster_parent"}, "YouthProfiles"),
       Protected(<<"", "medication-logs", ":youthId">>,
                 {"admin", "worker", "foster_parent"}, "MedicationLog"),
       Protected(<<"", "theme-settings">>,
                 {"admin", "worker", "foster_parent"}, "ThemeSettings"),
       Protected(<<"", "agency-settings">>, {"admin"}, "AgencySettings"),
       Public(UnauthorizedPath, "Unauthorized"),
       Public(<<"*">>, "NotFound") >>

----------------------------------------------------------------------------
(* Route matching, as <Routes> does it: every route whose pattern matches  *)
(* the location is a candidate, the candidates are ranked by score, and    *)
(* among equal scores the route written first wins.  Letter case is not    *)
(* modelled: every request is written in the table's own case.             *)

\* the dynamic segments of the table (":id", ":youthId")
ParamSegments == {":id", ":youthId"}

isSplat(s) == s = "*"

RECURSIVE segmentScores(_)
segmentScores(segments) ==
    IF segments = << >> THEN 0
    ELSE LET s == Head(segments)
         IN  (IF isSplat(s) THEN 0
              ELSE IF s \in ParamSegments THEN 3
              ELSE IF s = "" THEN 1
              ELSE 10) + segmentScores(Tail(segments))

computeScore(path) ==
    Len(path)
    + (IF \E i \in 1..Len(path) : isSplat(path[i]) THEN -2 ELSE 0)
    + segmentScores(path)

\* leading, trailing and doubled slashes do not count in a match
Norm(path) == SelectSeq(path, LAMBDA s : s # "")

\* mutant: a dynamic segment is compared like a static one
matchPath_NoParams(pattern, location) ==
    LET pat == Norm(pattern)
        loc == Norm(location)
    IN  IF pattern = <<"*">> THEN TRUE
        ELSE /\ Len(pat) = Len(loc)
             /\ \A i \in 1..Len(pat) : pat[i] = loc[i]

\* mutant: the splat is compared like a static segment
matchPath_SplatLiteral(pattern, location) ==
    LET pat == Norm(pattern)
        loc == Norm(location)
    IN  /\ Len(pat) = Len(loc)
        /\ \A i \in 1..Len(pat) : pat[i] = loc[i] \/ pat[i] \in ParamSegments

matchPath(pattern, location) ==
    LET pat == Norm(pattern)
        loc == Norm(location)
    IN  IF pattern = <<"*">> THEN TRUE
        ELSE /\ Len(pat) = Len(loc)
             /\ \A i \in 1..Len(pat) : pat[i] = loc[i] \/ pat[i] \in ParamSegments

\* the index in RouteTable of the route rendered for a location, 0 for none
matchRoutes(location) ==
    LET candidates == { i \in 1..Len(RouteTable) : matchPath(RouteTable[i].path, location) }
        before(i, j) ==
            \/ computeScore(RouteTable[i].path) > computeScore(RouteTable[j].path)
            \/ /\ computeScore(RouteTable[i].path) = computeScore(RouteTable[j].path)
               /\ i <= j
    IN  IF candidates = {} THEN 0
        ELSE CHOOSE i \in candidates : \A j \in candidates : before(i, j)

\* the locations a run can be at, each with its matched route
Matched == [ p \in Requests |-> matchRoutes(p) ]

----------------------------------------------------------------------------
(* Rendering.  A location, signal or module change renders the tree again  *)
(* at once (no transition keeps an earlier view on screen while a module   *)
(* is fetched); a rendered <Navigate> changes the location in an effect,   *)
(* which runs before the next event is handled.                            *)

\* React.lazy: the module's import starts when the view is first rendered
lazyLoad(lz, view) ==
    IF lz[view] = "uninitialized" THEN [lz EXCEPT ![view] = "pending"] ELSE lz

\* mutant: the region shows the view whether or not its module has arrived
Suspense_NoFallback(lz, view) == view

\* <Suspense fallback={<LoadingFallback />}>: the fallback until the module is there
Suspense(lz, view) ==
    IF lz[view] = "resolved" THEN view ELSE "LoadingFallback"

\* One render pass of AppRouter at location p under signal (u, r, l) with
\* module states lz: the matched route, the gate's decision, the view.
Render(p, u, r, l, lz) ==
    LET m     == Matched[p]
        route == RouteTable[m]
        gate  == IF route.gated
                 THEN ProtectedRoute(route.allowedRoles, u, r, l)
                 ELSE NoGate
        base  == [lazyStatus |-> lz, outcome |-> NoGate, display |-> "Null",
                  navigateTo |-> NoNav, allowedRoles |-> {}]
    IN  IF m = 0 THEN base
        ELSE IF route.view = Null
          THEN [base EXCEPT !.navigateTo = route.to]
        ELSE IF gate.kind = "placeholder"
          THEN [base EXCEPT !.outcome = gate, !.display = "AuthLoading",
                            !.allowedRoles = route.allowedRoles]
        ELSE IF gate.kind = "navigate"
          THEN [base EXCEPT !.outcome = gate, !.navigateTo = gate.to,
                            !.allowedRoles = route.allowedRoles]
        ELSE [base EXCEPT !.outcome = gate,
                          !.lazyStatus = lazyLoad(lz, route.view),
                          !.display = Suspense(lz, route.view),
                          !.allowedRoles = route.allowedRoles]

Fetched(lz) == { v \in Views : lz[v] # "uninitialized" }

\* the state after a render pass; a pass may not start a fetch beyond MaxFetches
Commit(p, u, r, l, lz, n) ==
    \E out \in {Render(p, u, r, l, lz)} :
        /\ Cardinality(Fetched(out.lazyStatus)) <= MaxFetches
        /\ pathname' = p
        /\ currentUser' = u
        /\ userRole' = r
        /\ loading' = l
        /\ lazyStatus' = out.lazyStatus
        /\ outcome' = out.outcome
        /\ display' = out.display
        /\ navigateTo' = out.navigateTo
        /\ allowedRoles' = out.allowedRoles
        /\ redirects' = n

Users == {Null, "u1"}
SignalRoles == Roles \cup {Null}

Init ==
    \E p \in Requests, u \in Users, r \in SignalRoles, l \in BOOLEAN :
        LET lz  == [v \in Views |-> "uninitialized"]
            out == Render(p, u, r, l, lz)
        IN  /\ pathname = p
            /\ currentUser = u
            /\ userRole = r
            /\ loading = l
            /\ lazyStatus = out.lazyStatus
            /\ outcome = out.outcome
            /\ display = out.display
            /\ navigateTo = out.navigateTo
            /\ allowedRoles = out.allowedRoles
            /\ redirects = 0

\* the user requests a location (a link, the address bar, history)
Request ==
    /\ navigateTo = NoNav
    /\ \E p \in Requests :
           Commit(p, currentUser, userRole, loading, lazyStatus, 0)

\* the effect of a rendered <Navigate>: the location becomes its target
NavigateEffect ==
    /\ navigateTo # NoNav
    /\ Commit(navigateTo, currentUser, userRole, loading, lazyStatus, redirects + 1)

\* useAuth(): the auth context changes and the router renders again
AuthChange ==
    /\ navigateTo = NoNav
    /\ \E u \in Users, r \in SignalRoles, l \in BOOLEAN :
           /\ <<u, r, l>> # <<currentUser, userRole, loading>>
           /\ Commit(pathname, u, r, l, lazyStatus, 0)

\* a pending import() resolves and the suspended region renders again
FetchResolve ==
    /\ navigateTo = NoNav
    /\ \E v \in Views :
           /\ lazyStatus[v] = "pending"
           /\ Commit(pathname, currentUser, userRole, loading,
                     [lazyStatus EXCEPT ![v] = "resolved"], redirects)

Next == Request \/ NavigateEffect \/ AuthChange \/ FetchResolve

Spec == Init /\ [][Next]_vars

----------------------------------------------------------------------------
(* The gate alone, for every allowedRoles set and every signal *)

GateCommit(roles, u, r, l) ==
    LET gate == ProtectedRoute(roles, u, r, l)
    IN  /\ allowedRoles' = roles
        /\ currentUser' = u
        /\ userRole' = r
        /\ loading' = l
        /\ outcome' = gate
        /\ navigateTo' = gate.to
        /\ display' = IF gate.kind = "placeholder" THEN "AuthLoading"
                      ELSE IF gate.kind = "children" THEN "Children"
                      ELSE "Null"
        /\ UNCHANGED <<pathname, lazyStatus, redirects>>

GateInit ==
    \E roles \in SUBSET RoleStrings, u \in Users,
       r \in RoleStrings \cup {Null}, l \in BOOLEAN :
        LET gate == ProtectedRoute(roles, u, r, l)
        IN  /\ allowedRoles = roles
            /\ currentUser = u
            /\ userRole = r
            /\ loading = l
            /\ outcome = gate
            /\ navigateTo = gate.to
            /\ display = IF gate.kind = "placeholder" THEN "AuthLoading"
                         ELSE IF gate.kind = "children" THEN "Children"
                         ELSE "Null"
            /\ pathname = NoNav
            /\ lazyStatus = [v \in Views |-> "uninitialized"]
            /\ redirects = 0

\* the gate is rendered again with another allowedRoles prop
GateProps ==
    \E roles \in SUBSET RoleStrings :
        /\ roles # allowedRoles
        /\ GateCommit(roles, currentUser, userRole, loading)

\* the gate is rendered again because the auth context changed
GateSignal ==
    \E u \in Users, r \in RoleStrings \cup {Null}, l \in BOOLEAN :
        /\ <<u, r, l>> # <<currentUser, userRole, loading>>
        /\ GateCommit(allowedRoles, u, r, l)

GateNext == GateProps \/ GateSignal

GateSpec == GateInit /\ [][GateNext]_vars

----------------------------------------------------------------------------
(* Properties of the gate, checked under GateSpec *)

\* C1 (as claimed): with the signal resolved and a user present, the gate
\* renders its children exactly when userRole is a member of allowedRoles,
\* the empty string included.
C1_GrantIffMember ==
    (~loading /\ currentUser # Null) =>
        (outcome.kind = "children" <=> userRole \in allowedRoles)

\* C2: while loading is true the gate yields the loading placeholder only:
\* no children and no redirect, whatever currentUser, userRole and
\* allowedRoles are.
C2_LoadingPlaceholderOnly ==
    loading =>
        /\ outcome = Placeholder
        /\ display = "AuthLoading"
        /\ navigateTo = NoNav

C2_Witness ==
    /\ loading
    /\ currentUser = Null
    /\ userRole \in allowedRoles
    /\ display = "AuthLoading"

\* C3: resolved and without a user, the gate redirects to /login, never to
\* /unauthorized and never renders children, whatever allowedRoles and
\* userRole are.
C3_NoUserToLogin ==
    (~loading /\ currentUser = Null) =>
        /\ outcome = Navigate(LoginPath)
        /\ navigateTo = LoginPath
        /\ display # "Children"

C3_Witness ==
    /\ ~loading
    /\ currentUser = Null
    /\ userRole = "admin"
    /\ "admin" \in allowedRoles
    /\ navigateTo = LoginPath

\* C4: resolved, with a user, and userRole absent or not a member of
\* allowedRoles, the gate redirects to /unauthorized (not /login) and does
\* not render its children.
C4_DeniedToUnauthorized ==
    (~loading /\ currentUser # Null
        /\ (userRole = Null \/ userRole \notin allowedRoles)) =>
        /\ outcome = Navigate(UnauthorizedPath)
        /\ navigateTo = UnauthorizedPath
        /\ display # "Children"

C4_Witness ==
    /\ ~loading
    /\ currentUser = "u1"
    /\ userRole = "foster_parent"
    /\ allowedRoles = {"admin", "worker"}
    /\ navigateTo = UnauthorizedPath

----------------------------------------------------------------------------
(* Properties of the router, checked under Spec *)

\* the protected rows of the documented path table: request, roles, view
PathTable ==
    { <<RootPath, {"admin", "worker", "foster_parent"}, "Dashboard">>,
      <<<<"", "user-management">>, {"admin"}, "UserManagement">>,
      <<<<"", "reports">>, {"admin", "worker"}, "Reports">>,
      <<<<"", "reports-overview">>, {"admin", "worker"}, "Reports">>,
      <<<<"", "youth-profiles">>, {"admin", "worker"}, "YouthProfiles">>,
      <<<<"", "youth-profiles", "y1">>,
        {"admin", "worker", "foster_parent"}, "YouthDetail">>,
      <<<<"", "foster-parents">>, {"admin", "worker"}, "FosterParents">>,
      <<<<"", "my-youth">>, {"foster_parent"}, "YouthProfiles">>,
      <<<<"", "medication-logs", "y1">>,
        {"admin", "worker", "foster_parent"}, "MedicationLog">>,
      <<<<"", "theme-settings">>,
        {"admin", "worker", "foster_parent"}, "ThemeSettings">>,
      <<<<"", "agency-settings">>, {"admin"}, "AgencySettings">> }

ProtectedViews == { row[3] : row \in PathTable }

\* the region renders view v: the placeholder while v is fetched, then v
Renders(v) ==
    /\ lazyStatus[v] # "uninitialized"
    /\ display = IF lazyStatus[v] = "resolved" THEN v ELSE "LoadingFallback"

\* C5: at every protected row of the path table, with a resolved signal, a
\* user and a role among admin, worker, foster_parent, the row's view is
\* rendered when the role is one of the row's roles, and no protected view
\* is rendered otherwise.
C5_PathTable ==
    \A row \in PathTable :
        (pathname = row[1] /\ ~loading /\ currentUser # Null /\ userRole \in Roles) =>
            IF userRole \in row[2]
            THEN outcome = Children /\ Renders(row[3]) /\ navigateTo = NoNav
            ELSE /\ outcome.kind # "children"
                 /\ display \notin ProtectedViews \cup {"LoadingFallback"}

C5_Witness ==
    /\ pathname = <<"", "my-youth">>
    /\ ~loading
    /\ currentUser = "u1"
    /\ userRole = "foster_parent"
    /\ display = "YouthProfiles"

\* the requests that name no row of the path table
UnknownRequests == { <<"", "nonexistent-path">> }

\* C6: a request that matches no entry of the route table is routed to
\* NotFound, with no redirect and no gate, in every authentication state.
C6_UnknownToNotFound ==
    pathname \in UnknownRequests =>
        /\ outcome = NoGate
        /\ navigateTo = NoNav
        /\ Renders("NotFound")

C6_Witness ==
    /\ pathname \in UnknownRequests
    /\ loading
    /\ currentUser = Null
    /\ display = "NotFound"

\* C7 (as claimed): a request for the empty path is redirected to /login by
\* the table's own entry whatever the signal, and "/" stays a distinct entry
\* that renders Dashboard behind the gate for admin, worker, foster_parent.
C7_EmptyPathToLogin ==
    /\ pathname = EmptyPath =>
           /\ outcome = NoGate
           /\ navigateTo = LoginPath
    /\ (pathname = RootPath /\ ~loading /\ currentUser # Null /\ userRole \in Roles) =>
           /\ outcome = Children
           /\ Renders("Dashboard")

\* the view the matched route renders in this state, Null when it renders none
RenderedView ==
    LET m == Matched[pathname]
    IN  IF m # 0 /\ RouteTable[m].view # Null /\ outcome.kind \in {"none", "children"}
        THEN RouteTable[m].view
        ELSE Null

\* C8 (as claimed): from the start of a view's fetch until it resolves the
\* region shows LoadingFallback and no view content; once it has resolved
\* the view is rendered.
C8_PlaceholderWhileFetching ==
    \A v \in Views :
        /\ lazyStatus[v] = "pending" => display = "LoadingFallback"
        /\ (lazyStatus[v] = "resolved" /\ RenderedView = v) => display = v

\* C8 (amended): a view's fetch starts only in a render pass of a route that
\* renders that view, never earlier; while the view the matched route renders
\* is being fetched the region shows LoadingFallback and no view content, and
\* once its fetch has resolved the region shows the view.
C8_LazyFetch ==
    /\ [](\A v \in Views :
            /\ RenderedView = v => Renders(v)
            /\ display = v => lazyStatus[v] = "resolved")
    /\ [][\A v \in Views :
            (lazyStatus[v] = "uninitialized" /\ lazyStatus'[v] # "uninitialized")
                => (lazyStatus'[v] = "pending" /\ RenderedView' = v)]_vars

C8_Witness ==
    /\ pathname = RootPath
    /\ lazyStatus["Dashboard"] = "pending"
    /\ lazyStatus["Login"] = "resolved"
    /\ display = "LoadingFallback"

\* C9: whenever the content of a gate-wrapped view is displayed, the signal
\* is resolved, has a user, and its role belongs to the allowedRoles of the
\* route matched now, whose view is the one displayed.
C9_DisplayedImpliesPermitted ==
    display \in ProtectedViews =>
        /\ ~loading
        /\ currentUser # Null
        /\ userRole # Null
        /\ userRole \in allowedRoles
        /\ Matched[pathname] # 0
        /\ RouteTable[Matched[pathname]].gated
        /\ RouteTable[Matched[pathname]].view = display
        /\ userRole \in RouteTable[Matched[pathname]].allowedRoles

C9_Witness ==
    /\ display = "AgencySettings"
    /\ lazyStatus["Dashboard"] = "resolved"
    /\ userRole = "admin"

\* C10: since the last request or signal change at most one redirect has
\* run; a redirect goes to /login or /unauthorized only, and after it no
\* gate is mounted and no further redirect is pending.
C10_AtMostOneRedirect ==
    /\ redirects <= 1
    /\ navigateTo \in {NoNav, LoginPath, UnauthorizedPath}
    /\ redirects = 1 =>
           /\ pathname \in {LoginPath, UnauthorizedPath}
           /\ outcome = NoGate
           /\ navigateTo = NoNav
           /\ display \in {"Login", "Unauthorized", "LoadingFallback"}

C10_Witness ==
    /\ redirects = 1
    /\ pathname = UnauthorizedPath
    /\ ~loading
    /\ display = "Unauthorized"

====
